---- MODULE Spec2Model ----
(***************************************************************************)
(* Model of michabay05/autoclass: main.py (WorkInfo, CourseInfo) and the   *)
(* Google Classroom / Drive helpers of gutils.py that main.py calls.       *)
(*                                                                         *)
(* A run is  CourseInfo.from_json(path).setup_course()  (main.py:140).     *)
(* The remote service is the environment: every remote call either         *)
(* answers or does not (name not found, or an HttpError that the helper    *)
(* prints and turns into None).                                            *)
(*                                                                         *)
(* Python's None is the empty set, a present value v is {v}.               *)
(* A datetime is [day, hms]: day counts days after 2025-05-31, hms is the  *)
(* time of day; timedelta(weeks, days) only ever moves the day.            *)
(***************************************************************************)
EXTENDS Integers, Sequences, FiniteSets, TLC

VARIABLES
    plan,           \* the parsed json document: name, start_date, items
    now,            \* datetime.now() as read by from_json
    pc,             \* position in from_json / setup_course
    error,          \* message of the assertion that ended the run, or ""
    course_id,      \* CourseInfo.course_id
    work_items,     \* CourseInfo.work_items
    idx,            \* position of `work` in work_items (1-based)
    prev_pub_date,  \* setup_course local
    pub_date,       \* setup_course local
    due_date,       \* setup_course local
    fidx,           \* position of `file` in work.files (1-based)
    file_ids,       \* mat_drive_file_ids / drive_file_ids
    topic_id,       \* gc_create_* local
    calls,          \* history: every remote call issued, in order
    pub_dates,      \* history: pub_date computed for each item reached
    faults          \* history: remote calls that did not answer

vars == <<plan, now, pc, error, course_id, work_items, idx, prev_pub_date,
          pub_date, due_date, fidx, file_ids, topic_id, calls, pub_dates,
          faults>>

----------------------------------------------------------------------------
(* Bounds *)

MaxItems == 2

MaxFaults == 2

\* gc_create_assignment(..., max_points: int | None = 100)
DefaultMaxPoints == 100

----------------------------------------------------------------------------
(* Values *)

None == {}

Some(v) == {v}

Val(o) == CHOOSE v \in o : TRUE

DateTime(d, h) == [day |-> d, hms |-> h]

Midnight == <<0, 0, 0>>

\* datetime.fromisoformat on the strings the plans below use
fromisoformat(s) ==
    CASE s = "2025-05-31"          -> DateTime(0, Midnight)
      [] s = "2025-05-31T12:00:00" -> DateTime(0, <<12, 0, 0>>)
      [] s = "2025-06-01"          -> DateTime(1, Midnight)
      [] s = "2025-06-10"          -> DateTime(10, Midnight)
      [] s = "2025-06-20T09:30:00" -> DateTime(20, <<9, 30, 0>>)

\* datetime ordering: a > b
After(a, b) ==
    \/ a.day > b.day
    \/ /\ a.day = b.day
       /\ \/ a.hms[1] > b.hms[1]
          \/ a.hms[1] = b.hms[1] /\ a.hms[2] > b.hms[2]
          \/ a.hms[1] = b.hms[1] /\ a.hms[2] = b.hms[2] /\ a.hms[3] > b.hms[3]

\* TimeDelta(**d): absent keys take the dataclass defaults
TimeDelta(d) ==
    [weeks |-> IF "weeks" \in DOMAIN d THEN d.weeks ELSE 0,
     days  |-> IF "days"  \in DOMAIN d THEN d.days  ELSE 0]

\* dt + timedelta(weeks=td.weeks, days=td.days)
AddDelta(dt, td) == [dt EXCEPT !.day = @ + 7 * td.weeks + td.days]

----------------------------------------------------------------------------
(* WorkInfo *)

WorkKinds == {"material", "assignment"}

\* WorkInfo(**item) followed by __post_init__; only called on known kinds
WorkInfo(item) ==
    [kind          |-> item.kind,
     publish_after |-> TimeDelta(item.publish_after),
     topic         |-> item.topic,
     title         |-> item.title,
     publish_date  |-> {fromisoformat(s) : s \in item.publish_date},
     description   |-> item.description,
     files         |-> item.files,
     due_after     |-> {TimeDelta(d) : d \in item.due_after},
     due_date      |-> {fromisoformat(s) : s \in item.due_date},
     max_points    |-> item.max_points]

get_due_date_or_publish(work, curr_pub_date) ==
    IF work.kind # "assignment" THEN None
    ELSE IF work.due_after = None THEN Some(curr_pub_date)
    ELSE IF work.due_date # None THEN work.due_date
    ELSE Some(AddDelta(curr_pub_date, Val(work.due_after)))

get_due_date_any_kind(work, curr_pub_date) ==
    IF work.due_after = None THEN None
    ELSE IF work.due_date # None THEN work.due_date
    ELSE Some(AddDelta(curr_pub_date, Val(work.due_after)))

get_due_date(work, curr_pub_date) ==
    IF work.kind # "assignment" THEN None
    ELSE IF work.due_after = None THEN None
    ELSE IF work.due_date # None THEN work.due_date
    ELSE Some(AddDelta(curr_pub_date, Val(work.due_after)))

get_publish_date_relative(work, prev) == AddDelta(prev, work.publish_after)

get_publish_date(work, prev) ==
    IF work.publish_date # None THEN Val(work.publish_date)
    ELSE AddDelta(prev, work.publish_after)

----------------------------------------------------------------------------
(* The remote service, as gutils.py sees it *)

\* What a remote call for v can come back as: v, or nothing
Answers(v) == {Some(v)} \cup (IF faults < MaxFaults THEN {None} ELSE {})

Fault(r) == IF r = None THEN faults + 1 ELSE faults

gc_find_course(name) == Answers(<<"course", name>>)

gd_find_file(name) == Answers(<<"file", name>>)

\* An empty name returns None without a remote call
gc_find_topic(name) ==
    IF name = ""
    THEN {[result |-> None, remote |-> FALSE]}
    ELSE {[result |-> r, remote |-> TRUE] : r \in Answers(<<"topic", name>>)}

Lookup(op, item, arg, r) == [op |-> op, item |-> item, arg |-> arg, result |-> r]

Attachments(ids) == [i \in 1..Len(ids) |-> [driveFile |-> ids[i]]]

\* the body gc_create_material sends
MaterialBody(cid, title, scheduled_time, ids, tid, description) ==
    [courseId      |-> cid,
     title         |-> title,
     description   |-> description,
     materials     |-> Attachments(ids),
     state         |-> "DRAFT",
     scheduledTime |-> <<scheduled_time, "America/New_York">>,
     topicId       |-> tid]

\* the body gc_create_assignment sends
AssignmentBody(cid, title, scheduled_time, due, ids, tid, description, max_points) ==
    [courseId      |-> cid,
     title         |-> title,
     description   |-> description,
     materials     |-> IF ids # <<>> THEN Attachments(ids) ELSE <<>>,
     dueDate       |-> due.day,
     dueTime       |-> due.hms,
     scheduledTime |-> <<scheduled_time, "UTC">>,
     state         |-> "DRAFT",
     maxPoints     |-> max_points,
     workType      |-> "ASSIGNMENT",
     assigneeMode  |-> "ALL_STUDENTS",
     submissionModificationMode |-> "MODIFIABLE_UNTIL_TURNED_IN",
     topicId       |-> tid]

Create(op, item, body, r) == [op |-> op, item |-> item, body |-> body, result |-> r]

----------------------------------------------------------------------------
(* CourseInfo *)

NoDate == DateTime(0, Midnight)

Truthy(files) == files # None /\ Val(files) # <<>>

StartOkNotBefore(start, clock) == ~After(clock, start)

\* main.py:84
StartOk(start, clock) == After(start, clock)

AppendFoundFront(ids, r) == IF r # None THEN <<Val(r)>> \o ids ELSE ids

\* main.py:103 and main.py:125
AppendFound(ids, r) == IF r # None THEN Append(ids, Val(r)) ELSE ids

\* the step after the file loop
AfterFiles(kind) == IF kind = "assignment" THEN "assert_due" ELSE "mat_topic"

AfterDueSkipDir == "asg_topic"

\* the step after the assertion of main.py:105
AfterDue == "submit_dir"

AfterCreateRaise(r) == IF r = None THEN "aborted" ELSE "loop"

\* the create calls catch HttpError and return
AfterCreate(r) == "loop"

\* setup_course always passes the keyword: max_points=work.max_points
MaxPointsArg(w) == Some(w.max_points)

\* gc_create_assignment's parameter max_points: the default serves an omitted keyword
MaxPointsParam(kw) == IF kw = None THEN Some(DefaultMaxPoints) ELSE Val(kw)

\* a failed assertion ends the run with its message
Abort(msg) == pc' = "aborted" /\ error' = msg

MsgStart == "Course start date has to be in the future."

MsgCourse == "ERROR: Unable to find course with name"

MsgKind == "Unknown kind of work"

MsgFiles == "Material has no associated files; if intentional, then just make a post instead"

MsgDue == "Due date can't be none for an assignment"

MsgDir == "All assignments have to have a submission directory"

MsgTopic == "For now, all topics for assignments have to exist; they can't be omitted."

work == work_items[idx]

\* from_json up to the assertion on the start date
FromJson ==
    /\ pc = "from_json"
    /\ IF StartOk(fromisoformat(plan.start_date), now)
       THEN pc' = "init" /\ error' = error
       ELSE Abort(MsgStart)
    /\ UNCHANGED <<plan, now, course_id, work_items, idx, prev_pub_date,
                   pub_date, due_date, fidx, file_ids, topic_id, calls,
                   pub_dates, faults>>

\* cls(info["name"], start_date)
CourseInit ==
    /\ pc = "init"
    /\ \E r \in gc_find_course(plan.name) :
        /\ calls' = Append(calls, Lookup("gc_find_course", 0, plan.name, r))
        /\ faults' = Fault(r)
        /\ IF r = None
           THEN Abort(MsgCourse) /\ course_id' = course_id
           ELSE pc' = "parse" /\ error' = error /\ course_id' = r
    /\ UNCHANGED <<plan, now, work_items, idx, prev_pub_date, pub_date,
                   due_date, fidx, file_ids, topic_id, pub_dates>>

\* cinfo.work_items = [WorkInfo(**item) for item in info["items"]]
ParseItems ==
    /\ pc = "parse"
    /\ IF \E i \in 1..Len(plan.items) : plan.items[i].kind \notin WorkKinds
       THEN Abort(MsgKind) /\ work_items' = work_items
       ELSE /\ pc' = "setup" /\ error' = error
            /\ work_items' = [i \in 1..Len(plan.items) |-> WorkInfo(plan.items[i])]
    /\ UNCHANGED <<plan, now, course_id, idx, prev_pub_date, pub_date,
                   due_date, fidx, file_ids, topic_id, calls, pub_dates, faults>>

\* setup_course: prev_pub_date = self.start_date
SetupStart ==
    /\ pc = "setup"
    /\ prev_pub_date' = fromisoformat(plan.start_date)
    /\ idx' = 1
    /\ pc' = "loop"
    /\ UNCHANGED <<plan, now, error, course_id, work_items, pub_date, due_date,
                   fidx, file_ids, topic_id, calls, pub_dates, faults>>

\* the for statement; for the next item, its dates and the assertion on files
LoopHead ==
    /\ pc = "loop"
    /\ IF idx > Len(work_items)
       THEN /\ pc' = "done"
            /\ UNCHANGED <<error, pub_date, pub_dates, due_date, file_ids, fidx>>
       ELSE LET pd == get_publish_date(work, prev_pub_date) IN
            /\ pub_date' = pd
            /\ pub_dates' = Append(pub_dates, pd)
            /\ due_date' = IF work.kind = "assignment"
                           THEN get_due_date(work, pd) ELSE due_date
            /\ file_ids' = IF work.kind = "assignment" \/ Truthy(work.files)
                           THEN <<>> ELSE file_ids
            /\ fidx' = 1
            /\ IF Truthy(work.files)
               THEN pc' = "files" /\ error' = error
               ELSE Abort(MsgFiles)
    /\ UNCHANGED <<plan, now, course_id, work_items, idx, prev_pub_date,
                   topic_id, calls, faults>>

\* one turn of  for file in work.files
FindFile ==
    /\ pc = "files"
    /\ LET name == Val(work.files)[fidx] IN
       \E r \in gd_find_file(name) :
        /\ calls' = Append(calls, Lookup("gd_find_file", idx, name, r))
        /\ faults' = Fault(r)
        /\ file_ids' = AppendFound(file_ids, r)
    /\ fidx' = fidx + 1
    /\ pc' = IF fidx = Len(Val(work.files)) THEN AfterFiles(work.kind) ELSE "files"
    /\ UNCHANGED <<plan, now, error, course_id, work_items, idx, prev_pub_date,
                   pub_date, due_date, topic_id, pub_dates>>

\* assert due_date is not None
AssertDue ==
    /\ pc = "assert_due"
    /\ IF due_date # None
       THEN pc' = AfterDue /\ error' = error
       ELSE Abort(MsgDue)
    /\ UNCHANGED <<plan, now, course_id, work_items, idx, prev_pub_date,
                   pub_date, due_date, fidx, file_ids, topic_id, calls,
                   pub_dates, faults>>

\* gc_create_assignment: the submission directory
SubmitDir ==
    /\ pc = "submit_dir"
    /\ \E r \in gd_find_file("TestDir") :
        /\ calls' = Append(calls, Lookup("gd_find_file", idx, "TestDir", r))
        /\ faults' = Fault(r)
        /\ IF r # None
           THEN pc' = "asg_topic" /\ error' = error
           ELSE Abort(MsgDir)
    /\ UNCHANGED <<plan, now, course_id, work_items, idx, prev_pub_date,
                   pub_date, due_date, fidx, file_ids, topic_id, pub_dates>>

\* the topic asserted only after the create call
AsgTopicAssertLate ==
    /\ pc = "asg_topic"
    /\ \E t \in gc_find_topic(work.topic) :
        /\ calls' = Append(
                IF t.remote
                THEN Append(calls, Lookup("gc_find_topic", idx, work.topic, t.result))
                ELSE calls,
                Create("courseWork.create", idx,
                    AssignmentBody(course_id, work.title, pub_date, Val(due_date),
                        file_ids, t.result, work.description,
                        MaxPointsParam(MaxPointsArg(work))), Some("created")))
        /\ faults' = IF t.remote THEN Fault(t.result) ELSE faults
        /\ topic_id' = t.result
        /\ IF t.result # None
           THEN pc' = "loop" /\ error' = error
           ELSE Abort(MsgTopic)
        /\ prev_pub_date' = IF t.result # None THEN pub_date ELSE prev_pub_date
        /\ idx' = IF t.result # None THEN idx + 1 ELSE idx
    /\ UNCHANGED <<plan, now, course_id, work_items, pub_date, due_date, fidx,
                   file_ids, pub_dates>>

\* gc_create_assignment: the topic
AsgTopic ==
    /\ pc = "asg_topic"
    /\ \E t \in gc_find_topic(work.topic) :
        /\ calls' = IF t.remote
                    THEN Append(calls, Lookup("gc_find_topic", idx, work.topic, t.result))
                    ELSE calls
        /\ faults' = IF t.remote THEN Fault(t.result) ELSE faults
        /\ topic_id' = t.result
        /\ IF t.result # None
           THEN pc' = "asg_create" /\ error' = error
           ELSE Abort(MsgTopic)
    /\ UNCHANGED <<plan, now, course_id, work_items, idx, prev_pub_date,
                   pub_date, due_date, fidx, file_ids, pub_dates>>

\* gc_create_assignment: courseWork().create, then prev_pub_date = pub_date
AsgCreate ==
    /\ pc = "asg_create"
    /\ \E r \in Answers("created") :
        /\ calls' = Append(calls, Create("courseWork.create", idx,
                AssignmentBody(course_id, work.title, pub_date, Val(due_date),
                    file_ids, topic_id, work.description,
                    MaxPointsParam(MaxPointsArg(work))), r))
        /\ faults' = Fault(r)
        /\ pc' = AfterCreate(r)
    /\ prev_pub_date' = pub_date
    /\ idx' = idx + 1
    /\ UNCHANGED <<plan, now, error, course_id, work_items, pub_date, due_date,
                   fidx, file_ids, topic_id, pub_dates>>

\* gc_create_material: the topic, looked up while the body is built
MatTopic ==
    /\ pc = "mat_topic"
    /\ \E t \in gc_find_topic(work.topic) :
        /\ calls' = IF t.remote
                    THEN Append(calls, Lookup("gc_find_topic", idx, work.topic, t.result))
                    ELSE calls
        /\ faults' = IF t.remote THEN Fault(t.result) ELSE faults
        /\ topic_id' = t.result
    /\ pc' = "mat_create"
    /\ UNCHANGED <<plan, now, error, course_id, work_items, idx, prev_pub_date,
                   pub_date, due_date, fidx, file_ids, pub_dates>>

\* gc_create_material: courseWorkMaterials().create, then prev_pub_date = pub_date
MatCreate ==
    /\ pc = "mat_create"
    /\ \E r \in Answers("created") :
        /\ calls' = Append(calls, Create("courseWorkMaterials.create", idx,
                MaterialBody(course_id, work.title, pub_date, file_ids,
                    topic_id, work.description), r))
        /\ faults' = Fault(r)
        /\ pc' = AfterCreate(r)
    /\ prev_pub_date' = pub_date
    /\ idx' = idx + 1
    /\ UNCHANGED <<plan, now, error, course_id, work_items, pub_date, due_date,
                   fidx, file_ids, topic_id, pub_dates>>

Next ==
    \/ FromJson
    \/ CourseInit
    \/ ParseItems
    \/ SetupStart
    \/ LoopHead
    \/ FindFile
    \/ AssertDue
    \/ SubmitDir
    \/ AsgTopic
    \/ AsgCreate
    \/ MatTopic
    \/ MatCreate

----------------------------------------------------------------------------
(* Plans *)

SeqsUpTo(S, n) == UNION {[1..k -> S] : k \in 0..n}

\* one entry of info["items"]
Item(kind, pa, pd, files, da, dd, mp, topic) ==
    [kind          |-> kind,
     publish_after |-> pa,
     topic         |-> topic,
     title         |-> "Work",
     publish_date  |-> pd,
     description   |-> None,
     files         |-> files,
     due_after     |-> da,
     due_date      |-> dd,
     max_points    |-> mp]

Items(K, PA, PD, F, DA, DD, MP, T) ==
    {Item(k, pa, pd, f, da, dd, mp, t) :
        k \in K, pa \in PA, pd \in PD, f \in F, da \in DA, dd \in DD,
        mp \in MP, t \in T}

StartDates == {"2025-05-31", "2025-05-31T12:00:00", "2025-06-01"}

\* the state before from_json runs on a document whose item list is one of ItemSeqs
InitWith(ItemSeqs) ==
    /\ plan \in [name : {"Algebra"}, start_date : StartDates, items : ItemSeqs]
    /\ now = fromisoformat("2025-05-31T12:00:00")
    /\ pc = "from_json"
    /\ error = ""
    /\ course_id = None
    /\ work_items = <<>>
    /\ idx = 0
    /\ prev_pub_date = NoDate
    /\ pub_date = NoDate
    /\ due_date = None
    /\ fidx = 0
    /\ file_ids = <<>>
    /\ topic_id = None
    /\ calls = <<>>
    /\ pub_dates = <<>>
    /\ faults = 0

\* plans that differ in kind, files, due offset and topic, or hold an unknown kind
GeneralItems ==
    Items(WorkKinds, {[days |-> 3]}, {None}, {None, Some(<<"A">>)},
          {None, Some([days |-> 5])}, {None}, {None}, {"", "Unit 1"})
    \cup Items({"quiz"}, {[days |-> 3]}, {None}, {Some(<<"A">>)}, {None},
               {None}, {None}, {"Unit 1"})

\* plans that differ in kind and in how the publish date is given
ChainItems ==
    Items(WorkKinds, {[days |-> 3], [weeks |-> 1], [weeks |-> 0, days |-> 0]},
          {None, Some("2025-06-10")}, {Some(<<"A">>)}, {Some([days |-> 5])},
          {None}, {None}, {"Unit 1"})

Offset(pa) ==
    Item("material", pa, None, Some(<<"A">>), None, None, None, "Unit 1")

\* offsets (0,3), (1,0), (0,0)
ExamplePlan ==
    <<Offset([weeks |-> 0, days |-> 3]), Offset([weeks |-> 1, days |-> 0]),
      Offset([weeks |-> 0, days |-> 0])>>

\* plans that differ in kind, in how the due date is given and in max points
DueItems ==
    Items(WorkKinds, {[days |-> 3]}, {None}, {Some(<<"A">>)},
          {None, Some([weeks |-> 1, days |-> 5])},
          {None, Some("2025-06-20T09:30:00")}, {None, Some(50)}, {"Unit 1"})

\* plans that differ in kind and in the files listed
FileItems ==
    Items(WorkKinds, {[days |-> 3]}, {None},
          {None, Some(<<>>), Some(<<"A">>), Some(<<"A", "B", "missing">>)},
          {Some([days |-> 5])}, {None}, {None}, {"Unit 1"})

Init == InitWith(SeqsUpTo(GeneralItems, MaxItems))

InitChain == InitWith(SeqsUpTo(ChainItems, MaxItems) \cup {ExamplePlan})

InitDue == InitWith(SeqsUpTo(DueItems, MaxItems))

InitFiles == InitWith(SeqsUpTo(FileItems, MaxItems))

Spec == Init /\ [][Next]_vars

SpecChain == InitChain /\ [][Next]_vars

SpecDue == InitDue /\ [][Next]_vars

SpecFiles == InitFiles /\ [][Next]_vars

----------------------------------------------------------------------------
(* Reading the history *)

CreateOps == {"courseWork.create", "courseWorkMaterials.create"}

IsCreate(c) == c.op \in CreateOps

Creates == SelectSeq(calls, IsCreate)

CallsOf(k) == SelectSeq(calls, LAMBDA c : c.item = k)

CreatesOf(k) == SelectSeq(calls, LAMBDA c : c.item = k /\ IsCreate(c))

\* the items whose publish date setup_course has computed
Reached == 1..Len(pub_dates)

PlusDays(dt, n) == DateTime(dt.day + n, dt.hms)

DeltaDays(td) == 7 * td.weeks + td.days

\* the date the chain hands to item k
PrevOf(k) == IF k = 1 THEN fromisoformat(plan.start_date) ELSE pub_dates[k - 1]

----------------------------------------------------------------------------
(* C1 *)

ClaimedDue(w, P) ==
    IF w.due_date # None THEN w.due_date
    ELSE IF w.due_after # None THEN Some(PlusDays(P, DeltaDays(Val(w.due_after))))
    ELSE None

\* C1: for an Assignment, get_due_date returns the absolute due date whenever
\* it is set, else publish date + (7w + d) days when an offset is set, else
\* absent.  The code answers absent for an absolute due date given without an
\* offset (main.py:52 returns before main.py:54 is read).
C1_AbsoluteDueDateFirst ==
    (pc \in {"files", "assert_due"} /\ work.kind = "assignment")
        => due_date = ClaimedDue(work, pub_date)

----------------------------------------------------------------------------
(* C2 *)

ClaimedPublish(w, prev) ==
    IF w.publish_date # None THEN Val(w.publish_date)
    ELSE PlusDays(prev, DeltaDays(w.publish_after))

\* C2: the publish date of item k is its absolute publish date if set, else
\* the previous resolved publish date (the start date for the first item)
\* plus 7*weeks + days; offsets (0,3), (1,0), (0,0) from 2025-06-01 give
\* 2025-06-04, 2025-06-11, 2025-06-11.
C2_PublishChain ==
    /\ \A k \in Reached : pub_dates[k] = ClaimedPublish(work_items[k], PrevOf(k))
    /\ (plan.items = ExamplePlan /\ plan.start_date = "2025-06-01")
        => \A k \in Reached : pub_dates[k] = DateTime(<<4, 11, 11>>[k], Midnight)

C2_ExampleResolved ==
    /\ plan.items = ExamplePlan
    /\ pc = "done"
    /\ Len(pub_dates) = 3

----------------------------------------------------------------------------
(* C7 *)

\* C7: an assignment-creation request carries max points 100 when the plan
\* gives none, and the given value otherwise.  The code sends none at all:
\* setup_course passes max_points=None and the default is never used.
C7_MaxPointsDefault ==
    \A i \in 1..Len(Creates) :
        Creates[i].op = "courseWork.create" =>
            Creates[i].body.maxPoints =
                IF work_items[Creates[i].item].max_points = None
                THEN Some(100)
                ELSE work_items[Creates[i].item].max_points

----------------------------------------------------------------------------
(* C3 *)

C3_Order ==
    /\ Len(Creates) = (IF idx = 0 THEN 0 ELSE idx - 1)
    /\ \A k \in 1..Len(Creates) : Creates[k].item = k
    /\ pc = "done" =>
        /\ error = ""
        /\ Len(Creates) = Len(plan.items)
        /\ Len(pub_dates) = Len(plan.items)
    /\ pc \notin {"done", "aborted"} => ENABLED Next

C3_Kept ==
    /\ Len(calls') >= Len(calls)
    /\ SubSeq(calls', 1, Len(calls)) = calls

\* C3: creation requests are issued in plan order, one per item; when the
\* run is aborted at item i exactly the items before i have a request and
\* neither i nor a later item ever gets one; nothing issued is taken back;
\* a run that is not aborted goes on until every item has been processed.
C3_SequentialRun == []C3_Order /\ [][C3_Kept]_vars

C3_AbortedAtSecond ==
    /\ pc = "aborted"
    /\ idx = 2
    /\ Len(plan.items) = 2
    /\ Len(Creates) = 1

----------------------------------------------------------------------------
(* C4 *)

\* C4: a creation call that fails with a service error is not retried and
\* does not abort the run: the executor is at the next item, whose publish
\* date is chained from the failed item's publish date.
C4_GatewayFailureContinues ==
    \A i \in 1..Len(Creates) :
        Creates[i].result = None =>
            LET k == Creates[i].item IN
            /\ Len(CreatesOf(k)) = 1
            /\ idx = k + 1 \/ Len(pub_dates) > k
            /\ pc = "aborted" => Len(pub_dates) > k
            /\ Len(pub_dates) > k =>
                pub_dates[k + 1] = ClaimedPublish(work_items[k + 1], pub_dates[k])

C4_ContinuedAfterFailure ==
    /\ pc = "done"
    /\ Len(Creates) = 2
    /\ Creates[1].result = None
    /\ work_items[2].publish_date = None
    /\ DeltaDays(work_items[2].publish_after) > 0

----------------------------------------------------------------------------
(* C5 *)

\* the lookups of item k for its listed names: the first of its file lookups
FileLookups(k) ==
    LET all == SelectSeq(calls, LAMBDA c : c.item = k /\ c.op = "gd_find_file")
        n   == Len(Val(work_items[k].files))
    IN  SubSeq(all, 1, IF Len(all) < n THEN Len(all) ELSE n)

Resolved(lookups) ==
    LET ok == SelectSeq(lookups, LAMBDA c : c.result # None)
    IN  [j \in 1..Len(ok) |-> <<"file", ok[j].arg>>]

\* C5: a creation request carries exactly the identifiers of the listed
\* names that resolved, in the listed order; a name that does not resolve is
\* skipped, aborts nothing, and the request is issued even with no
\* attachment left.
C5_ResolvedFilesAttached ==
    /\ \A i \in 1..Len(Creates) :
        LET k     == Creates[i].item
            names == Val(work_items[k].files)
            fl    == FileLookups(k)
            ids   == Resolved(fl)
        IN  /\ Len(fl) = Len(names)
            /\ \A j \in 1..Len(fl) : fl[j].arg = names[j]
            /\ Creates[i].body.materials =
                    [j \in 1..Len(ids) |-> [driveFile |-> ids[j]]]
    /\ \A k \in 1..(idx - 1) : Len(CreatesOf(k)) = 1
    /\ (pc = "aborted" /\ idx >= 1) =>
        IF Truthy(work.files)
        THEN work.kind = "assignment" /\ error \in {MsgDue, MsgDir, MsgTopic}
        ELSE error = MsgFiles

C5_PartialResolution ==
    \E i \in 1..Len(Creates) :
        /\ Len(Val(work_items[Creates[i].item].files)) = 3
        /\ Len(Creates[i].body.materials) = 2

----------------------------------------------------------------------------
(* C6 *)

NoDue(w) == w.kind = "assignment" /\ w.due_date = None /\ w.due_after = None

\* C6: an Assignment with neither a due date nor a due offset passes the
\* load; the run is aborted when the executor reaches the item, for the
\* missing due date, and no creation request is issued for it.
C6_MissingDueFailsAtExecution ==
    /\ (pc = "aborted" /\ idx = 0) => error \in {MsgStart, MsgCourse}
    /\ pc \notin {"from_json", "init", "parse", "aborted"} =>
        Len(work_items) = Len(plan.items)
    /\ \A k \in 1..Len(work_items) :
        NoDue(work_items[k]) =>
            /\ idx <= k
            /\ CreatesOf(k) = <<>>
            /\ idx = k => pc \in {"loop", "files", "assert_due", "aborted"}
            /\ (idx = k /\ pc = "aborted") => error = MsgDue

C6_AbortedForMissingDue ==
    /\ pc = "aborted"
    /\ error = MsgDue
    /\ idx = 2
    /\ NoDue(work)
    /\ Len(Creates) = 1

----------------------------------------------------------------------------
(* C8 *)

\* C8: for a Material item get_due_date is absent whatever its due fields
\* hold, its creation request carries no due date and no due time, and it
\* is never aborted for a missing due date.
C8_MaterialHasNoDueDate ==
    \A k \in Reached :
        work_items[k].kind = "material" =>
            /\ get_due_date(work_items[k], pub_dates[k]) = None
            /\ \A i \in 1..Len(CreatesOf(k)) :
                /\ CreatesOf(k)[i].op = "courseWorkMaterials.create"
                /\ {"dueDate", "dueTime"} \cap DOMAIN CreatesOf(k)[i].body = {}
            /\ (pc = "aborted" /\ idx = k) => error # MsgDue

C8_MaterialWithDueFieldsCreated ==
    \E i \in 1..Len(Creates) :
        LET w == work_items[Creates[i].item] IN
        /\ w.kind = "material"
        /\ w.due_after # None
        /\ w.due_date # None

----------------------------------------------------------------------------
(* C9 *)

\* C9: loading a plan whose start date is not strictly in the future fails
\* on the start date before the load makes any remote call: no course
\* lookup, no item parsed or processed.
C9_PastStartFailsFirst ==
    ~ After(fromisoformat(plan.start_date), now) =>
        /\ calls = <<>>
        /\ course_id = None
        /\ work_items = <<>>
        /\ pub_dates = <<>>
        /\ pc \in {"from_json", "aborted"}
        /\ pc = "aborted" => error = MsgStart

C9_StartNowRejected ==
    /\ pc = "aborted"
    /\ plan.start_date = "2025-05-31T12:00:00"
    /\ plan.items # <<>>

----------------------------------------------------------------------------
(* C10 *)

OpArg(c) == <<c.op, IF IsCreate(c) THEN "" ELSE c.arg>>

Issued(k) == [j \in 1..Len(CallsOf(k)) |-> OpArg(CallsOf(k)[j])]

FileSteps(w) ==
    [j \in 1..Len(Val(w.files)) |-> <<"gd_find_file", Val(w.files)[j]>>]

DirStep == << <<"gd_find_file", "TestDir">> >>

TopicStep(w) == IF w.topic = "" THEN <<>> ELSE << <<"gc_find_topic", w.topic>> >>

CreateStep == << <<"courseWork.create", "">> >>

IsPrefix(s, t) == Len(s) <= Len(t) /\ s = SubSeq(t, 1, Len(s))

AbortedAt(k, msg) == pc = "aborted" /\ idx = k /\ error = msg

Assignments == {k \in Reached : work_items[k].kind = "assignment"
                                    /\ Truthy(work_items[k].files)}

\* C10 as stated: topic lookup, file lookups, submission directory, due-date
\* check, creation request.
C10_TopicLookupFirst ==
    \A k \in Assignments :
        LET w == work_items[k] IN
        /\ IsPrefix(Issued(k), TopicStep(w) \o FileSteps(w) \o DirStep \o CreateStep)
        /\ AbortedAt(k, MsgTopic) => Len(Issued(k)) <= 1
        /\ AbortedAt(k, MsgDue) =>
            Len(Issued(k)) = Len(TopicStep(w)) + Len(FileSteps(w)) + 1

\* C10, amended: file lookups, due-date check, submission directory, topic
\* lookup, creation request.  A run aborted for the due date has issued the
\* item's file lookups and nothing else; one aborted for the topic has
\* issued the file lookups and the submission-directory lookup before.
C10_AssignmentSteps ==
    \A k \in Assignments :
        LET w == work_items[k]
            n == Len(FileSteps(w))
        IN
        /\ IsPrefix(Issued(k), FileSteps(w) \o DirStep \o TopicStep(w) \o CreateStep)
        /\ Len(Issued(k)) > n => get_due_date(w, pub_dates[k]) # None
        /\ AbortedAt(k, MsgDue) => Len(Issued(k)) = n
        /\ AbortedAt(k, MsgDir) =>
            Len(Issued(k)) = n + 1 /\ CallsOf(k)[n + 1].result = None
        /\ AbortedAt(k, MsgTopic) =>
            /\ Len(Issued(k)) = n + 1 + Len(TopicStep(w))
            /\ CallsOf(k)[n + 1].result # None

C10_AbortedForTopic ==
    /\ pc = "aborted"
    /\ error = MsgTopic
    /\ idx = 2
    /\ work.topic # ""
    /\ Len(CallsOf(idx)) = Len(Val(work.files)) + 2

====
